---- MODULE Spec2Model ----
(***************************************************************************)
(* Fitness goal planner agent: session store, query classifier, response   *)
(* planner and the chat handler of src/protocol.py.                        *)
(*                                                                         *)
(* Texts are strings; the classifier is modelled character by character    *)
(* (lower-casing, mention stripping, substring search).  The handler is    *)
(* modelled at the granularity of the event loop: one action per stretch   *)
(* of code between two awaits that can suspend (ctx.send, asyncio.sleep);  *)
(* the model call is a blocking call inside such a stretch.                *)
(***************************************************************************)
EXTENDS Integers, Sequences, FiniteSets, TLC

VARIABLES
    storage,        \* ctx.storage: key -> persisted session record
    clock,          \* datetime.now(timezone.utc), in whole seconds
    received,       \* number of chat messages delivered so far (next msg_id)
    pc,             \* per handler invocation: position in handle_message
    sender,         \* per handler: the sender argument
    ctx_session,    \* per handler: ctx.session (None when absent)
    msg,            \* per handler: the inbound ChatMessage
    session_id,     \* per handler: local session_id
    session_data,   \* per handler: local session_data (history and state)
    loaded,         \* per handler: session_data as get_session_data returned it
    request,        \* per handler: messages of the model call of the turn
    classified,     \* per handler: classification of the turn's text
    result,         \* per handler: local result (reply text)
    attempt,        \* per handler: loop variable of the send retry loop
    trace,          \* per handler: external calls made for the current message
    turns,          \* key -> the text turns persisted under that key, in order
    cq_query,       \* classifier harness: the query argument
    cq_history,     \* classifier harness: the history argument
    cq_result,      \* classifier harness: the classification returned, if any
    kv_log          \* store harness: the store operations made, with results

vars == <<storage, clock, received, pc, sender, ctx_session, msg, session_id,
          session_data, loaded, request, classified, result, attempt,
          trace, turns,
          cq_query, cq_history, cq_result, kv_log>>

handlerVars == <<pc, sender, ctx_session, msg, session_id, session_data,
                 loaded, request, classified, result, attempt, trace>>

harnessVars == <<cq_query, cq_history, cq_result, kv_log>>

None == "None"

(***************************************************************************)
(* Strings                                                                 *)
(***************************************************************************)

UpperChars == <<"A","B","C","D","E","F","G","H","I","J","K","L","M",
                "N","O","P","Q","R","S","T","U","V","W","X","Y","Z">>

LowerChars == <<"a","b","c","d","e","f","g","h","i","j","k","l","m",
                "n","o","p","q","r","s","t","u","v","w","x","y","z">>

Digits == {"0","1","2","3","4","5","6","7","8","9"}

\* \w of the re module
WordChars == {UpperChars[i] : i \in 1..26} \cup {LowerChars[i] : i \in 1..26}
                \cup Digits \cup {"_"}

Whitespace == {" ", "\t", "\n", "\r"}

CharAt(s, i) == SubSeq(s, i, i)

\* str.lower() of one character
LowerChar(c) ==
    IF \E i \in 1..26 : UpperChars[i] = c
    THEN LowerChars[CHOOSE i \in 1..26 : UpperChars[i] = c]
    ELSE c

RECURSIVE LowerFrom(_, _)
LowerFrom(s, i) ==
    IF i > Len(s) THEN "" ELSE LowerChar(CharAt(s, i)) \o LowerFrom(s, i + 1)

\* str.lower()
Lower(s) == LowerFrom(s, 1)

RECURSIVE LStrip(_)
LStrip(s) ==
    IF Len(s) > 0 /\ CharAt(s, 1) \in Whitespace
    THEN LStrip(SubSeq(s, 2, Len(s))) ELSE s

RECURSIVE RStrip(_)
RStrip(s) ==
    IF Len(s) > 0 /\ CharAt(s, Len(s)) \in Whitespace
    THEN RStrip(SubSeq(s, 1, Len(s) - 1)) ELSE s

\* str.strip()
Strip(s) == LStrip(RStrip(s))

\* pattern in s
Contains(pattern, s) ==
    \E i \in 1..(Len(s) - Len(pattern) + 1) :
        SubSeq(s, i, i + Len(pattern) - 1) = pattern

MentionPrefix == "@agent1q"

\* first index >= i of s that is not a word character (Len(s)+1 if none)
RECURSIVE WordEnd(_, _)
WordEnd(s, i) ==
    IF i <= Len(s) /\ CharAt(s, i) \in WordChars THEN WordEnd(s, i + 1) ELSE i

\* does the regular expression @agent1q\w+ match s at index i
MentionAt(s, i) ==
    /\ i + Len(MentionPrefix) <= Len(s)
    /\ SubSeq(s, i, i + Len(MentionPrefix) - 1) = MentionPrefix
    /\ CharAt(s, i + Len(MentionPrefix)) \in WordChars

\* re.sub(r'@agent1q\w+', '', s), scanning from index i
RECURSIVE SubMentionFrom(_, _)
SubMentionFrom(s, i) ==
    IF i > Len(s) THEN ""
    ELSE IF MentionAt(s, i)
         THEN SubMentionFrom(s, WordEnd(s, i + Len(MentionPrefix)))
         ELSE CharAt(s, i) \o SubMentionFrom(s, i + 1)

SubMention(s) == SubMentionFrom(s, 1)

(***************************************************************************)
(* Query classification                                                    *)
(***************************************************************************)

\* the dict phase_patterns, in insertion order
phase_patterns_reordered == <<
    [phase |-> "assessment", patterns |-> <<
        "assess", "fitness level", "current fitness", "starting point",
        "how fit am i", "my stats", "bmi", "body composition",
        "evaluate", "baseline", "fitness test">>],
    [phase |-> "goals", patterns |-> <<
        "goal", "smart goal", "target", "objective", "aim",
        "want to lose", "want to gain", "want to build",
        "lose weight", "gain muscle", "get stronger", "get lean",
        "bulk", "cut", "recomp", "body recomposition">>],
    [phase |-> "meal", patterns |-> <<
        "meal", "diet", "nutrition", "food", "eat", "calories",
        "macro", "protein", "carb", "fat", "tdee", "meal prep",
        "supplement", "pre workout", "post workout", "hydration">>],
    [phase |-> "workout", patterns |-> <<
        "workout", "exercise", "training", "split", "routine",
        "push pull", "upper lower", "full body", "gym plan",
        "program", "schedule", "sets", "reps", "cardio",
        "hiit", "strength training", "resistance">>],
    [phase |-> "progress", patterns |-> <<
        "progress", "track", "measure", "check-in", "plateau",
        "adjust", "deload", "overtraining", "milestone",
        "not seeing results", "stuck", "update my plan">>] >>

phase_patterns == <<
    [phase |-> "assessment", patterns |-> <<
        "assess", "fitness level", "current fitness", "starting point",
        "how fit am i", "my stats", "bmi", "body composition",
        "evaluate", "baseline", "fitness test">>],
    [phase |-> "goals", patterns |-> <<
        "goal", "smart goal", "target", "objective", "aim",
        "want to lose", "want to gain", "want to build",
        "lose weight", "gain muscle", "get stronger", "get lean",
        "bulk", "cut", "recomp", "body recomposition">>],
    [phase |-> "workout", patterns |-> <<
        "workout", "exercise", "training", "split", "routine",
        "push pull", "upper lower", "full body", "gym plan",
        "program", "schedule", "sets", "reps", "cardio",
        "hiit", "strength training", "resistance">>],
    [phase |-> "meal", patterns |-> <<
        "meal", "diet", "nutrition", "food", "eat", "calories",
        "macro", "protein", "carb", "fat", "tdee", "meal prep",
        "supplement", "pre workout", "post workout", "hydration">>],
    [phase |-> "progress", patterns |-> <<
        "progress", "track", "measure", "check-in", "plateau",
        "adjust", "deload", "overtraining", "milestone",
        "not seeing results", "stuck", "update my plan">>] >>

context_patterns == <<
    "summarize", "summary", "explain", "why", "how does",
    "what did you", "repeat", "show again", "recap",
    "from before", "you said", "earlier">>

\* for pattern in patterns: if pattern in query_clean
AnyPatternIn(patterns, query_clean) ==
    \E j \in 1..Len(patterns) : Contains(patterns[j], query_clean)

\* query_clean as computed at the top of classify_query
CleanQuery(query) == Strip(SubMention(Strip(Lower(query))))

\* the loop over phase_patterns.items(), from the i-th item on: the phase of
\* the first item one of whose patterns occurs in query_clean, else None
RECURSIVE FirstPhaseFrom(_, _)
FirstPhaseFrom(query_clean, i) ==
    IF i > Len(phase_patterns) THEN None
    ELSE IF AnyPatternIn(phase_patterns[i].patterns, query_clean)
         THEN phase_patterns[i].phase
         ELSE FirstPhaseFrom(query_clean, i + 1)

classify_query_ignoring_context(query, history) ==
    LET query_clean == CleanQuery(query)
        classification == [type |-> "general", phase |-> None,
                           is_followup |-> Len(history) > 0,
                           needs_planning |-> TRUE]
        phase == FirstPhaseFrom(query_clean, 1)
    IN  IF phase # None
        THEN [classification EXCEPT !.phase = phase,
                                    !.type = "phase_" \o phase]
        ELSE classification

classify_query(query, history) ==
    LET query_clean == CleanQuery(query)
        classification == [type |-> "general", phase |-> None,
                           is_followup |-> Len(history) > 0,
                           needs_planning |-> TRUE]
        phase == FirstPhaseFrom(query_clean, 1)
    IN  IF phase # None
        THEN [classification EXCEPT !.phase = phase,
                                    !.type = "phase_" \o phase]
        ELSE IF AnyPatternIn(context_patterns, query_clean)
        THEN [classification EXCEPT !.type = "context_analysis",
                                    !.needs_planning = FALSE]
        ELSE classification

(***************************************************************************)
(* Session storage functions                                               *)
(***************************************************************************)

\* d[k] = v on a dict
SetKey(d, k, v) == [x \in (DOMAIN d) \cup {k} |-> IF x = k THEN v ELSE d[x]]

EmptyDict == [x \in {} |-> None]

\* get_session_key that leaves the session id out of the key
get_session_key_sender_only(sender_, session_id_) ==
    "session:" \o sender_

get_session_key(sender_, session_id_) ==
    "session:" \o sender_ \o ":" \o session_id_

\* the dict get_session_data builds when the key is absent
NewSession(now) ==
    [history |-> <<>>,
     state |-> [greeted |-> FALSE,
                created_at |-> now,
                current_phase |-> "intake",
                fitness_profile |-> EmptyDict,
                goals |-> <<>>,
                workout_plan |-> EmptyDict,
                meal_plan |-> EmptyDict,
                progress_log |-> <<>>]]

\* get_session_data that does not look at the store
get_session_data_ignoring_store(store, sender_, session_id_, now) ==
    NewSession(now)

\* Every value this program writes under a session key is a dict, so the
\* isinstance check passes whenever the key is present.
get_session_data(store, sender_, session_id_, now) ==
    LET key == get_session_key(sender_, session_id_)
    IN  IF key \in DOMAIN store THEN store[key] ELSE NewSession(now)

\* session_data after the assignment of updated_at in save_session_data
Stamped(data, now) ==
    [data EXCEPT !.state = SetKey(@, "updated_at", now)]

save_session_data_keeping_history(store, sender_, session_id_, data, now) ==
    LET key == get_session_key(sender_, session_id_)
    IN  SetKey(store, key,
               IF key \in DOMAIN store
               THEN [Stamped(data, now) EXCEPT !.history = store[key].history]
               ELSE Stamped(data, now))

\* ctx.storage after save_session_data
save_session_data(store, sender_, session_id_, data, now) ==
    SetKey(store, get_session_key(sender_, session_id_), Stamped(data, now))

add_to_history_user_only(history, role, content, now) ==
    IF role = "user"
    THEN Append(history, [role |-> role, content |-> content, timestamp |-> now])
    ELSE history

\* add_to_history that keeps only the sixteen most recent entries
add_to_history_windowed(history, role, content, now) ==
    LET appended == Append(history, [role |-> role, content |-> content,
                                     timestamp |-> now])
    IN  IF Len(appended) > 16
        THEN SubSeq(appended, Len(appended) - 15, Len(appended))
        ELSE appended

add_to_history(history, role, content, now) ==
    Append(history, [role |-> role, content |-> content, timestamp |-> now])

\* history[:-1]
AllButLast(history) == SubSeq(history, 1, Len(history) - 1)

(***************************************************************************)
(* Chat messages                                                           *)
(***************************************************************************)

TextContent(text) == [type |-> "text", text |-> text]
StartSessionContent == [type |-> "start-session"]
EndSessionContent == [type |-> "end-session"]

\* the loop of extract_text from the i-th item on
RECURSIVE ExtractTextFrom(_, _)
ExtractTextFrom(content, i) ==
    IF i > Len(content) THEN ""
    ELSE IF content[i].type = "text" THEN content[i].text
         ELSE ExtractTextFrom(content, i + 1)

extract_text(m) == ExtractTextFrom(m.content, 1)

create_text_chat_without_end_item(text, end_session) ==
    [type |-> "ChatMessage", content |-> <<TextContent(text)>>]

create_text_chat(text, end_session) ==
    [type |-> "ChatMessage",
     content |-> IF end_session
                 THEN <<TextContent(text), EndSessionContent>>
                 ELSE <<TextContent(text)>>]

ChatAcknowledgement(msg_id) ==
    [type |-> "ChatAcknowledgement", acknowledged_msg_id |-> msg_id]

\* the loop over msg.content in the no-text branch of handle_message: the
\* type of the first start-session or end-session item, None if there is none
RECURSIVE FirstMarkerFrom(_, _)
FirstMarkerFrom(content, i) ==
    IF i > Len(content) THEN None
    ELSE IF content[i].type \in {"start-session", "end-session"}
         THEN content[i].type
         ELSE FirstMarkerFrom(content, i + 1)

FirstMarker(m) == FirstMarkerFrom(m.content, 1)

WELCOME_MESSAGE == "Welcome to the Fitness Goal Planner Agent! ..."

CLOSING_MESSAGE == "Great session! Your fitness plan has been saved. ..."

APOLOGY_MESSAGE == "Sorry, I encountered a technical issue. Please try again."

(***************************************************************************)
(* Response planner                                                        *)
(***************************************************************************)

CONTEXT_NO_CHOICE ==
    "I couldn't find the information in our conversation. Could you rephrase?"

CONTEXT_ERROR ==
    "An error occurred while reviewing our conversation. Please try again."

PLAN_NO_CHOICE ==
    "I couldn't generate a fitness plan for that. Please try rephrasing your request."

PLAN_TIMEOUT ==
    "Planning is taking longer than expected. Try a more specific question."

PLAN_ERROR == "An unexpected error occurred. Please try again."

\* texts the model may return
ModelTexts == {"Here is your plan."}

\* What client.chat.completions.create can do: return a response with a
\* first choice, return a response without choices, raise
\* asyncio.TimeoutError, or raise another Exception.
ModelOutcomes ==
    {[kind |-> "choices", content |-> t] : t \in ModelTexts} \cup
    {[kind |-> k, content |-> None] :
        k \in {"no_choices", "TimeoutError", "Exception"}}

analyze_context(query, history, outcome) ==
    CASE outcome.kind = "choices" -> outcome.content
      [] outcome.kind = "no_choices" -> CONTEXT_NO_CHOICE
      [] OTHER -> CONTEXT_ERROR

\* plan_fitness_response with the phase recorded before the response is
\* inspected
plan_fitness_response_eager_phase(query, history, state, outcome) ==
    LET classification == classify_query(query, history)
        phase == classification.phase
        state1 == IF phase # None
                  THEN [state EXCEPT !.current_phase = phase] ELSE state
    IN  IF classification.type = "context_analysis"
        THEN [text |-> analyze_context(query, history, outcome),
              state |-> state, path |-> "context_analysis"]
        ELSE CASE outcome.kind = "choices" ->
                    [text |-> outcome.content, state |-> state1, path |-> "planning"]
               [] outcome.kind = "no_choices" ->
                    [text |-> PLAN_NO_CHOICE, state |-> state1, path |-> "planning"]
               [] outcome.kind = "TimeoutError" ->
                    [text |-> PLAN_TIMEOUT, state |-> state1, path |-> "planning"]
               [] OTHER ->
                    [text |-> PLAN_ERROR, state |-> state1, path |-> "planning"]

\* plan_fitness_response catching only Exception
plan_fitness_response_no_timeout_clause(query, history, state, outcome) ==
    LET classification == classify_query(query, history)
        phase == classification.phase
    IN  IF classification.type = "context_analysis"
        THEN [text |-> analyze_context(query, history, outcome),
              state |-> state, path |-> "context_analysis"]
        ELSE CASE outcome.kind = "choices" ->
                    [text |-> outcome.content,
                     state |-> IF phase # None
                               THEN [state EXCEPT !.current_phase = phase]
                               ELSE state,
                     path |-> "planning"]
               [] outcome.kind = "no_choices" ->
                    [text |-> PLAN_NO_CHOICE, state |-> state, path |-> "planning"]
               [] OTHER ->
                    [text |-> PLAN_ERROR, state |-> state, path |-> "planning"]

\* plan_fitness_response indexing choices[0] without the emptiness test
plan_fitness_response_unchecked_choices(query, history, state, outcome) ==
    LET classification == classify_query(query, history)
        phase == classification.phase
    IN  IF classification.type = "context_analysis"
        THEN [text |-> analyze_context(query, history, outcome),
              state |-> state, path |-> "context_analysis"]
        ELSE CASE outcome.kind = "choices" ->
                    [text |-> outcome.content,
                     state |-> IF phase # None
                               THEN [state EXCEPT !.current_phase = phase]
                               ELSE state,
                     path |-> "planning"]
               [] outcome.kind = "TimeoutError" ->
                    [text |-> PLAN_TIMEOUT, state |-> state, path |-> "planning"]
               [] OTHER ->
                    [text |-> PLAN_ERROR, state |-> state, path |-> "planning"]

\* plan_fitness_response without the early return for context queries
plan_fitness_response_planning_always(query, history, state, outcome) ==
    LET classification == classify_query(query, history)
        phase == classification.phase
    IN  CASE outcome.kind = "choices" ->
                [text |-> outcome.content,
                 state |-> IF phase # None
                           THEN [state EXCEPT !.current_phase = phase]
                           ELSE state,
                 path |-> "planning"]
          [] outcome.kind = "no_choices" ->
                [text |-> PLAN_NO_CHOICE, state |-> state, path |-> "planning"]
          [] outcome.kind = "TimeoutError" ->
                [text |-> PLAN_TIMEOUT, state |-> state, path |-> "planning"]
          [] OTHER ->
                [text |-> PLAN_ERROR, state |-> state, path |-> "planning"]

\* The value returned (text), the state dict as the call leaves it (it is
\* mutated in place) and the request path taken.
plan_fitness_response(query, history, state, outcome) ==
    LET classification == classify_query(query, history)
        phase == classification.phase
    IN  IF classification.type = "context_analysis"
        THEN [text |-> analyze_context(query, history, outcome),
              state |-> state, path |-> "context_analysis"]
        ELSE CASE outcome.kind = "choices" ->
                    [text |-> outcome.content,
                     state |-> IF phase # None
                               THEN [state EXCEPT !.current_phase = phase]
                               ELSE state,
                     path |-> "planning"]
               [] outcome.kind = "no_choices" ->
                    [text |-> PLAN_NO_CHOICE, state |-> state, path |-> "planning"]
               [] outcome.kind = "TimeoutError" ->
                    [text |-> PLAN_TIMEOUT, state |-> state, path |-> "planning"]
               [] OTHER ->
                    [text |-> PLAN_ERROR, state |-> state, path |-> "planning"]

\* ---- the request handed to client.chat.completions.create ----

SYSTEM_PROMPT == "You are a certified Fitness Goal Planner ..."

CONTEXT_ANALYSIS_PROMPT ==
    "You are a helpful fitness planning assistant reviewing conversation history. ..."

\* history[-16:]
ContextWindow == 16

\* msg["content"][:1500]
MaxContentChars == 1500

\* str.upper() of one character
UpperChar(c) ==
    IF \E i \in 1..26 : LowerChars[i] = c
    THEN UpperChars[CHOOSE i \in 1..26 : LowerChars[i] = c]
    ELSE c

RECURSIVE UpperFrom(_, _)
UpperFrom(s, i) ==
    IF i > Len(s) THEN "" ELSE UpperChar(CharAt(s, i)) \o UpperFrom(s, i + 1)

\* str.upper()
Upper(s) == UpperFrom(s, 1)

\* first index >= i of s that is not whitespace (Len(s)+1 if none)
RECURSIVE SpaceEnd(_, _)
SpaceEnd(s, i) ==
    IF i <= Len(s) /\ CharAt(s, i) \in Whitespace THEN SpaceEnd(s, i + 1) ELSE i

\* re.sub(r'@agent1q\w+\s*', '', s), scanning from index i
RECURSIVE SubMentionSpaceFrom(_, _)
SubMentionSpaceFrom(s, i) ==
    IF i > Len(s) THEN ""
    ELSE IF MentionAt(s, i)
         THEN SubMentionSpaceFrom(s, SpaceEnd(s, WordEnd(s, i + Len(MentionPrefix))))
         ELSE CharAt(s, i) \o SubMentionSpaceFrom(s, i + 1)

\* clean_query of analyze_context and plan_fitness_response
clean_query(query) == Strip(SubMentionSpaceFrom(query, 1))

\* s[:n]
Prefix(s, n) == IF Len(s) > n THEN SubSeq(s, 1, n) ELSE s

\* history[-n:]
LastEntries(history, n) ==
    IF Len(history) > n
    THEN SubSeq(history, Len(history) - n + 1, Len(history))
    ELSE history

\* str(profile) of a profile dict: the program never fills the profile, so
\* the only dict formatted is the empty one
ProfileText(profile) == IF profile = EmptyDict THEN "{}" ELSE "{...}"

\* the first sentence of each phase instruction; the rest of the fixed text
\* is abbreviated
phase_instructions(phase, profile_summary) ==
    CASE phase = "assessment" ->
            "The user wants to work on their FITNESS ASSESSMENT (Phase 1).\n"
                \o profile_summary \o "\n..."
      [] phase = "goals" ->
            "The user wants to SET FITNESS GOALS (Phase 2).\n"
                \o profile_summary \o "\n..."
      [] phase = "workout" ->
            "The user wants a WORKOUT PLAN (Phase 3).\n"
                \o profile_summary \o "\n..."
      [] phase = "meal" ->
            "The user wants a MEAL PLAN (Phase 4).\n"
                \o profile_summary \o "\n..."
      [] phase = "progress" ->
            "The user wants PROGRESS TRACKING guidance (Phase 5).\n"
                \o profile_summary \o "\n..."
      [] OTHER -> "Respond helpfully to the user's fitness question."

build_phase_query(query, phase, state) ==
    LET current_phase == state.current_phase
        profile == state.fitness_profile
        profile_summary == IF profile # EmptyDict
                           THEN "\n**Known User Profile:** " \o ProfileText(profile)
                           ELSE ""
    IN  "**User Request:** " \o query
            \o "\n\n**Phase:** " \o Upper(phase)
            \o "\n**Current Session Phase:** " \o current_phase
            \o "\n\n" \o phase_instructions(phase, profile_summary)
            \o "\n\nRemember: Use planning and reasoning only ..."

build_general_query(query, state) ==
    LET current_phase == state.current_phase
        profile == state.fitness_profile
    IN  "**User Request:** " \o query
            \o "\n\n**Current Phase:** " \o current_phase
            \o "\n**Known Profile:** "
            \o (IF profile # EmptyDict THEN ProfileText(profile)
                ELSE "Not yet collected")
            \o "\n\nRespond helpfully. ..."

\* a message of the request
ChatTurn(role, content) == [role |-> role, content |-> content]

\* the messages analyze_context sends: system prompt, the whole history, the
\* question
context_messages(query, history) ==
    <<ChatTurn("system", CONTEXT_ANALYSIS_PROMPT)>>
        \o [i \in 1..Len(history) |->
                ChatTurn(history[i].role, history[i].content)]
        \o <<ChatTurn("user",
                      "Based on our conversation so far, please answer: "
                          \o clean_query(query))>>

\* planning_messages without the slice of the history
planning_messages_whole_history(query, history, state) ==
    LET phase == classify_query(query, history).phase
    IN  <<ChatTurn("system", SYSTEM_PROMPT)>>
            \o [i \in 1..Len(history) |->
                    ChatTurn(history[i].role,
                             Prefix(history[i].content, MaxContentChars))]
            \o <<ChatTurn("user",
                          IF phase # None
                          THEN build_phase_query(clean_query(query), phase, state)
                          ELSE build_general_query(clean_query(query), state))>>

\* the messages plan_fitness_response sends on the planning path
planning_messages(query, history, state) ==
    LET phase == classify_query(query, history).phase
        recent == LastEntries(history, ContextWindow)
    IN  <<ChatTurn("system", SYSTEM_PROMPT)>>
            \o [i \in 1..Len(recent) |->
                    ChatTurn(recent[i].role,
                             Prefix(recent[i].content, MaxContentChars))]
            \o <<ChatTurn("user",
                          IF phase # None
                          THEN build_phase_query(clean_query(query), phase, state)
                          ELSE build_general_query(clean_query(query), state))>>

\* the messages of the one model call of plan_fitness_response
model_request(query, history, state) ==
    IF classify_query(query, history).type = "context_analysis"
    THEN context_messages(query, history)
    ELSE planning_messages(query, history, state)

(***************************************************************************)
(* Bounds and inputs                                                       *)
(***************************************************************************)

MaxMessages == 2    \* chat messages delivered in one run

max_retries == 3

Handlers == {1, 2}

\* (sender, ctx.session) of the inbound messages; ctx.session is None when the
\* context carries no session
Conversations == {<<"agent1qaa", "s1">>, <<"agent1qbb", None>>}

\* texts users send: a general one, a context-analysis one, and one with
\* keywords of two phases
Queries == {"hi", "recap?", "Eat more reps"}

\* msg.content of the inbound messages
Contents ==
    {<<TextContent(q)>> : q \in Queries} \cup
    {<<>>, <<TextContent("")>>, <<StartSessionContent>>, <<EndSessionContent>>,
     <<StartSessionContent, EndSessionContent>>,
     <<EndSessionContent, StartSessionContent>>,
     <<StartSessionContent, TextContent("hi"), EndSessionContent>>,
     <<TextContent(""), TextContent("hi")>>}

(***************************************************************************)
(* The chat handler                                                        *)
(***************************************************************************)

Ev(ev, ok, payload) == [ev |-> ev, ok |-> ok, payload |-> payload]

Goto(h, label) == pc' = [pc EXCEPT ![h] = label]

Log(h, events) == trace' = [trace EXCEPT ![h] = @ \o events]

\* session_id as computed at the top of handle_message
SessionId(h) ==
    IF ctx_session[h] # None
    THEN ctx_session[h]
    ELSE sender[h] \o "_" \o ToString(clock)

Key(h) == get_session_key(sender[h], SessionId(h))

TurnsOf(key) == IF key \in DOMAIN turns THEN turns[key] ELSE <<>>

\* A chat message is delivered and handle_message starts; it runs up to the
\* await of the acknowledgement send.  Delivery is serialized: a message is
\* handed over only when no handler is running.  A message arrives in the
\* second after the one before it.
Receive(h) ==
    /\ \A g \in Handlers : pc[g] = "idle"
    /\ h = 1
    /\ received < MaxMessages
    /\ \E conv \in Conversations, c \in Contents :
        /\ sender' = [sender EXCEPT ![h] = conv[1]]
        /\ ctx_session' = [ctx_session EXCEPT ![h] = conv[2]]
        /\ msg' = [msg EXCEPT ![h] = [msg_id |-> received + 1, content |-> c]]
    /\ received' = received + 1
    /\ clock' = clock + 1
    /\ Goto(h, "ack")
    /\ UNCHANGED <<storage, session_id, session_data, loaded, request,
                   classified, result, attempt, trace, turns, harnessVars>>

\* SendAck with a failed send swallowed
SendAck_continuing_on_failure(h) ==
    /\ pc[h] = "ack"
    /\ \E ok \in BOOLEAN :
        /\ Log(h, <<Ev("send", ok, ChatAcknowledgement(msg[h].msg_id))>>)
        /\ Goto(h, "run")
    /\ UNCHANGED <<storage, clock, received, sender, ctx_session, msg,
                   session_id, session_data, loaded, request, classified,
                   result, attempt, turns, harnessVars>>

\* await ctx.send(sender, ChatAcknowledgement(...)) completes or raises
SendAck(h) ==
    /\ pc[h] = "ack"
    /\ \E ok \in BOOLEAN :
        /\ Log(h, <<Ev("send", ok, ChatAcknowledgement(msg[h].msg_id))>>)
        /\ Goto(h, IF ok THEN "run" ELSE "send_apology")
    /\ UNCHANGED <<storage, clock, received, sender, ctx_session, msg,
                   session_id, session_data, loaded, request, classified,
                   result, attempt, turns, harnessVars>>

\* ctx.storage.has or ctx.storage.get raises inside get_session_data
LoadFault(h) ==
    /\ pc[h] = "run"
    /\ session_id' = [session_id EXCEPT ![h] = SessionId(h)]
    /\ Log(h, <<Ev("get", FALSE, [key |-> Key(h)])>>)
    /\ Goto(h, "send_apology")
    /\ UNCHANGED <<storage, clock, received, sender, ctx_session, msg,
                   session_data, loaded, request, classified, result,
                   attempt, turns, harnessVars>>

\* StartSession without the assignment of greeted
StartSession_not_greeted(h) ==
    LET got == get_session_data(storage, sender[h], SessionId(h), clock)
    IN  /\ pc[h] = "run"
        /\ extract_text(msg[h]) = ""
        /\ FirstMarker(msg[h]) = "start-session"
        /\ session_id' = [session_id EXCEPT ![h] = SessionId(h)]
        /\ loaded' = [loaded EXCEPT ![h] = got]
        /\ UNCHANGED <<request, classified>>
        /\ session_data' = [session_data EXCEPT ![h] = Stamped(got, clock)]
        /\ \E ok \in BOOLEAN :
            /\ storage' = IF ok
                          THEN save_session_data(storage, sender[h], SessionId(h),
                                                 got, clock)
                          ELSE storage
            /\ Log(h, <<Ev("get", TRUE, [key |-> Key(h)]),
                        Ev("save", ok, [key |-> Key(h)])>>)
            /\ Goto(h, IF ok THEN "send_welcome" ELSE "send_apology")
        /\ UNCHANGED <<clock, received, sender, ctx_session, msg, result,
                       attempt, turns, harnessVars>>

\* no text, first marker is a StartSessionContent: up to the await of the
\* welcome send
StartSession(h) ==
    LET got == get_session_data(storage, sender[h], SessionId(h), clock)
        data == [got EXCEPT !.state.greeted = TRUE]
    IN  /\ pc[h] = "run"
        /\ extract_text(msg[h]) = ""
        /\ FirstMarker(msg[h]) = "start-session"
        /\ session_id' = [session_id EXCEPT ![h] = SessionId(h)]
        /\ loaded' = [loaded EXCEPT ![h] = got]
        /\ UNCHANGED <<request, classified>>
        /\ session_data' = [session_data EXCEPT ![h] = Stamped(data, clock)]
        /\ \E ok \in BOOLEAN :
            /\ storage' = IF ok
                          THEN save_session_data(storage, sender[h], SessionId(h),
                                                 data, clock)
                          ELSE storage
            /\ Log(h, <<Ev("get", TRUE, [key |-> Key(h)]),
                        Ev("save", ok, [key |-> Key(h)])>>)
            /\ Goto(h, IF ok THEN "send_welcome" ELSE "send_apology")
        /\ UNCHANGED <<clock, received, sender, ctx_session, msg, result,
                       attempt, turns, harnessVars>>

\* no text, first marker is an EndSessionContent: up to the await of the
\* closing send
EndSession(h) ==
    LET got == get_session_data(storage, sender[h], SessionId(h), clock)
    IN  /\ pc[h] = "run"
        /\ extract_text(msg[h]) = ""
        /\ FirstMarker(msg[h]) = "end-session"
        /\ session_id' = [session_id EXCEPT ![h] = SessionId(h)]
        /\ loaded' = [loaded EXCEPT ![h] = got]
        /\ UNCHANGED <<request, classified>>
        /\ session_data' = [session_data EXCEPT ![h] = Stamped(got, clock)]
        /\ \E ok \in BOOLEAN :
            /\ storage' = IF ok
                          THEN save_session_data(storage, sender[h], SessionId(h),
                                                 got, clock)
                          ELSE storage
            /\ Log(h, <<Ev("get", TRUE, [key |-> Key(h)]),
                        Ev("save", ok, [key |-> Key(h)])>>)
            /\ Goto(h, IF ok THEN "send_closing" ELSE "send_apology")
        /\ UNCHANGED <<clock, received, sender, ctx_session, msg, result,
                       attempt, turns, harnessVars>>

\* EmptyMessage that writes the loaded session back before returning
EmptyMessage_saving(h) ==
    LET got == get_session_data(storage, sender[h], SessionId(h), clock)
    IN  /\ pc[h] = "run"
        /\ extract_text(msg[h]) = ""
        /\ FirstMarker(msg[h]) = None
        /\ session_id' = [session_id EXCEPT ![h] = SessionId(h)]
        /\ loaded' = [loaded EXCEPT ![h] = got]
        /\ UNCHANGED <<request, classified>>
        /\ session_data' = [session_data EXCEPT ![h] = got]
        /\ storage' = save_session_data(storage, sender[h], SessionId(h),
                                        got, clock)
        /\ Log(h, <<Ev("get", TRUE, [key |-> Key(h)])>>)
        /\ Goto(h, "done")
        /\ UNCHANGED <<clock, received, sender, ctx_session, msg,
                       result, attempt, turns, harnessVars>>

\* no text and no marker: the handler returns
EmptyMessage(h) ==
    LET got == get_session_data(storage, sender[h], SessionId(h), clock)
    IN  /\ pc[h] = "run"
        /\ extract_text(msg[h]) = ""
        /\ FirstMarker(msg[h]) = None
        /\ session_id' = [session_id EXCEPT ![h] = SessionId(h)]
        /\ loaded' = [loaded EXCEPT ![h] = got]
        /\ UNCHANGED <<request, classified>>
        /\ session_data' = [session_data EXCEPT ![h] = got]
        /\ Log(h, <<Ev("get", TRUE, [key |-> Key(h)])>>)
        /\ Goto(h, "done")
        /\ UNCHANGED <<storage, clock, received, sender, ctx_session, msg,
                       result, attempt, turns, harnessVars>>

\* TextTurn in which an exception of the model call is not caught by the
\* planner and reaches the outer except clause
TextTurn_model_fault_propagating(h) ==
    /\ pc[h] = "run"
    /\ extract_text(msg[h]) # ""
    /\ LET text == extract_text(msg[h])
           sid == SessionId(h)
           got == get_session_data(storage, sender[h], sid, clock)
           history1 == add_to_history(got.history, "user", text, clock)
       IN \E classification \in {classify_query(text, AllButLast(history1))},
             messages \in {model_request(text, AllButLast(history1), got.state)},
             outcome \in ModelOutcomes :
          \E planned \in {plan_fitness_response(text, AllButLast(history1),
                                                got.state, outcome)},
             ok \in BOOLEAN :
        LET history2 == add_to_history(history1, "assistant", planned.text, clock)
            data == [history |-> history2, state |-> planned.state]
            raised == outcome.kind \in {"TimeoutError", "Exception"}
            saved == ok /\ ~raised
        IN  /\ session_id' = [session_id EXCEPT ![h] = sid]
            /\ loaded' = [loaded EXCEPT ![h] = got]
            /\ request' = [request EXCEPT ![h] = messages]
            /\ classified' = [classified EXCEPT ![h] = classification]
            /\ session_data' = [session_data EXCEPT ![h] =
                                   IF raised
                                   THEN [history |-> history1, state |-> got.state]
                                   ELSE Stamped(data, clock)]
            /\ result' = [result EXCEPT ![h] = IF raised THEN None ELSE planned.text]
            /\ attempt' = [attempt EXCEPT ![h] = 0]
            /\ storage' = IF saved
                          THEN save_session_data(storage, sender[h], sid, data, clock)
                          ELSE storage
            /\ turns' = IF saved
                        THEN SetKey(turns, get_session_key(sender[h], sid),
                                    Append(TurnsOf(get_session_key(sender[h], sid)),
                                           [text |-> text, outcome |-> outcome]))
                        ELSE turns
            /\ Log(h, <<Ev("get", TRUE, [key |-> get_session_key(sender[h], sid)]),
                        Ev("model", outcome.kind \in {"choices", "no_choices"},
                           [path |-> planned.path, outcome |-> outcome.kind])>>
                      \o (IF raised THEN <<>>
                          ELSE <<Ev("save", ok,
                                    [key |-> get_session_key(sender[h], sid)])>>))
            /\ Goto(h, IF saved THEN "send_reply" ELSE "send_apology")
    /\ UNCHANGED <<clock, received, sender, ctx_session, msg, harnessVars>>

\* a text turn: from the session load to the await of the first reply send
TextTurn(h) ==
    /\ pc[h] = "run"
    /\ extract_text(msg[h]) # ""
    /\ LET text == extract_text(msg[h])
           sid == SessionId(h)
           got == get_session_data(storage, sender[h], sid, clock)
           history1 == add_to_history(got.history, "user", text, clock)
       IN \E classification \in {classify_query(text, AllButLast(history1))},
             messages \in {model_request(text, AllButLast(history1), got.state)},
             outcome \in ModelOutcomes :
          \E planned \in {plan_fitness_response(text, AllButLast(history1),
                                                got.state, outcome)},
             ok \in BOOLEAN :
        LET history2 == add_to_history(history1, "assistant", planned.text, clock)
            data == [history |-> history2, state |-> planned.state]
        IN  /\ session_id' = [session_id EXCEPT ![h] = sid]
            /\ loaded' = [loaded EXCEPT ![h] = got]
            /\ request' = [request EXCEPT ![h] = messages]
            /\ classified' = [classified EXCEPT ![h] = classification]
            /\ session_data' = [session_data EXCEPT ![h] = Stamped(data, clock)]
            /\ result' = [result EXCEPT ![h] = planned.text]
            /\ attempt' = [attempt EXCEPT ![h] = 0]
            /\ storage' = IF ok
                          THEN save_session_data(storage, sender[h], sid, data, clock)
                          ELSE storage
            /\ turns' = IF ok
                        THEN SetKey(turns, get_session_key(sender[h], sid),
                                    Append(TurnsOf(get_session_key(sender[h], sid)),
                                           [text |-> text, outcome |-> outcome]))
                        ELSE turns
            /\ Log(h, <<Ev("get", TRUE, [key |-> get_session_key(sender[h], sid)]),
                        Ev("model", outcome.kind \in {"choices", "no_choices"},
                           [path |-> planned.path, outcome |-> outcome.kind]),
                        Ev("save", ok, [key |-> get_session_key(sender[h], sid)])>>)
            /\ Goto(h, IF ok THEN "send_reply" ELSE "send_apology")
    /\ UNCHANGED <<clock, received, sender, ctx_session, msg, harnessVars>>

\* SendWelcome whose failure is swallowed instead of reaching the outer except
SendWelcome_swallowing_failure(h) ==
    /\ pc[h] = "send_welcome"
    /\ \E ok \in BOOLEAN :
        /\ Log(h, <<Ev("send", ok, create_text_chat(WELCOME_MESSAGE, FALSE))>>)
        /\ Goto(h, "done")
    /\ UNCHANGED <<storage, clock, received, sender, ctx_session, msg,
                   session_id, session_data, loaded, request, classified,
                   result, attempt, turns, harnessVars>>

\* await ctx.send(sender, create_text_chat(welcome_message)) completes or raises
SendWelcome(h) ==
    /\ pc[h] = "send_welcome"
    /\ \E ok \in BOOLEAN :
        /\ Log(h, <<Ev("send", ok, create_text_chat(WELCOME_MESSAGE, FALSE))>>)
        /\ Goto(h, IF ok THEN "done" ELSE "send_apology")
    /\ UNCHANGED <<storage, clock, received, sender, ctx_session, msg,
                   session_id, session_data, loaded, request, classified,
                   result, attempt, turns, harnessVars>>

\* await ctx.send(sender, create_text_chat(..., end_session=True))
SendClosing(h) ==
    /\ pc[h] = "send_closing"
    /\ \E ok \in BOOLEAN :
        /\ Log(h, <<Ev("send", ok, create_text_chat(CLOSING_MESSAGE, TRUE))>>)
        /\ Goto(h, IF ok THEN "done" ELSE "send_apology")
    /\ UNCHANGED <<storage, clock, received, sender, ctx_session, msg,
                   session_id, session_data, loaded, request, classified,
                   result, attempt, turns, harnessVars>>

\* SendReply that puts the loaded session back when the last attempt fails
SendReply_rolling_back(h) ==
    /\ pc[h] = "send_reply"
    /\ \E ok \in BOOLEAN :
        /\ Log(h, <<Ev("send", ok, create_text_chat(result[h], FALSE))>>)
        /\ Goto(h, IF ok THEN "done"
                   ELSE IF attempt[h] < max_retries - 1 THEN "sleep"
                   ELSE "send_apology")
        /\ storage' = IF ~ok /\ attempt[h] >= max_retries - 1
                      THEN SetKey(storage,
                                  get_session_key(sender[h], session_id[h]),
                                  loaded[h])
                      ELSE storage
    /\ UNCHANGED <<clock, received, sender, ctx_session, msg, session_id,
                   session_data, loaded, request, classified, result,
                   attempt, turns, harnessVars>>

\* one iteration of the retry loop: await ctx.send(sender, create_text_chat(result))
SendReply(h) ==
    /\ pc[h] = "send_reply"
    /\ \E ok \in BOOLEAN :
        /\ Log(h, <<Ev("send", ok, create_text_chat(result[h], FALSE))>>)
        /\ Goto(h, IF ok THEN "done"
                   ELSE IF attempt[h] < max_retries - 1 THEN "sleep"
                   ELSE "send_apology")
    /\ UNCHANGED <<storage, clock, received, sender, ctx_session, msg,
                   session_id, session_data, loaded, request, classified,
                   result, attempt, turns, harnessVars>>

\* Sleep with a constant delay instead of 2 * (attempt + 1)
Sleep_constant_delay(h) ==
    /\ pc[h] = "sleep"
    /\ Log(h, <<Ev("sleep", TRUE, [seconds |-> 2])>>)
    /\ attempt' = [attempt EXCEPT ![h] = @ + 1]
    /\ Goto(h, "send_reply")
    /\ UNCHANGED <<storage, clock, received, sender, ctx_session, msg,
                   session_id, session_data, loaded, request, classified,
                   result, turns, harnessVars>>

\* await asyncio.sleep(2 * (attempt + 1)), then the next iteration
Sleep(h) ==
    /\ pc[h] = "sleep"
    /\ Log(h, <<Ev("sleep", TRUE, [seconds |-> 2 * (attempt[h] + 1)])>>)
    /\ attempt' = [attempt EXCEPT ![h] = @ + 1]
    /\ Goto(h, "send_reply")
    /\ UNCHANGED <<storage, clock, received, sender, ctx_session, msg,
                   session_id, session_data, loaded, request, classified,
                   result, turns, harnessVars>>

\* the outer except clause: one send of the apology, its failure is logged
SendApology(h) ==
    /\ pc[h] = "send_apology"
    /\ \E ok \in BOOLEAN :
        Log(h, <<Ev("send", ok, create_text_chat(APOLOGY_MESSAGE, FALSE))>>)
    /\ Goto(h, "done")
    /\ UNCHANGED <<storage, clock, received, sender, ctx_session, msg,
                   session_id, session_data, loaded, request, classified,
                   result, attempt, turns, harnessVars>>

\* handle_message has returned: its locals are gone
Return(h) ==
    /\ pc[h] = "done"
    /\ Goto(h, "idle")
    /\ sender' = [sender EXCEPT ![h] = None]
    /\ ctx_session' = [ctx_session EXCEPT ![h] = None]
    /\ msg' = [msg EXCEPT ![h] = None]
    /\ session_id' = [session_id EXCEPT ![h] = None]
    /\ session_data' = [session_data EXCEPT ![h] = None]
    /\ loaded' = [loaded EXCEPT ![h] = None]
    /\ request' = [request EXCEPT ![h] = <<>>]
    /\ classified' = [classified EXCEPT ![h] = None]
    /\ result' = [result EXCEPT ![h] = None]
    /\ attempt' = [attempt EXCEPT ![h] = 0]
    /\ trace' = [trace EXCEPT ![h] = <<>>]
    /\ UNCHANGED <<storage, clock, received, turns, harnessVars>>

HandlerInit ==
    /\ pc = [h \in Handlers |-> "idle"]
    /\ sender = [h \in Handlers |-> None]
    /\ ctx_session = [h \in Handlers |-> None]
    /\ msg = [h \in Handlers |-> None]
    /\ session_id = [h \in Handlers |-> None]
    /\ session_data = [h \in Handlers |-> None]
    /\ loaded = [h \in Handlers |-> None]
    /\ request = [h \in Handlers |-> <<>>]
    /\ classified = [h \in Handlers |-> None]
    /\ result = [h \in Handlers |-> None]
    /\ attempt = [h \in Handlers |-> 0]
    /\ trace = [h \in Handlers |-> <<>>]

HarnessIdle ==
    /\ cq_query = None
    /\ cq_history = <<>>
    /\ cq_result = <<>>
    /\ kv_log = <<>>

Init ==
    /\ storage = EmptyDict
    /\ clock = 0
    /\ received = 0
    /\ turns = EmptyDict
    /\ HandlerInit
    /\ HarnessIdle

Next ==
    \E h \in Handlers :
        \/ Receive(h)
        \/ SendAck(h)
        \/ LoadFault(h)
        \/ StartSession(h)
        \/ EndSession(h)
        \/ EmptyMessage(h)
        \/ TextTurn(h)
        \/ SendWelcome(h)
        \/ SendClosing(h)
        \/ SendReply(h)
        \/ Sleep(h)
        \/ SendApology(h)
        \/ Return(h)

Spec == Init /\ [][Next]_vars

(***************************************************************************)
(* Two chat messages of one conversation in flight at once                 *)
(***************************************************************************)

\* the conversation both messages belong to
SharedConversation == <<"agent1qaa", "s1">>

\* their texts: a workout request and a goals request
InFlightQueries == {"Eat more reps", "set a goal"}

\* A text message of the shared conversation is delivered while the handler
\* of the message before it may still be running: the n-th message starts
\* the n-th invocation of handle_message, which runs up to the await of the
\* acknowledgement send.
ReceiveInFlight(h) ==
    /\ pc[h] = "idle"
    /\ h = received + 1
    /\ received < MaxMessages
    /\ \E q \in InFlightQueries :
        msg' = [msg EXCEPT ![h] = [msg_id |-> received + 1,
                                   content |-> <<TextContent(q)>>]]
    /\ sender' = [sender EXCEPT ![h] = SharedConversation[1]]
    /\ ctx_session' = [ctx_session EXCEPT ![h] = SharedConversation[2]]
    /\ received' = received + 1
    /\ clock' = clock + 1
    /\ Goto(h, "ack")
    /\ UNCHANGED <<storage, session_id, session_data, loaded, request,
                   classified, result, attempt, trace, turns, harnessVars>>

\* the handlers interleave at their suspension points: the awaits of
\* ctx.send and asyncio.sleep
NextInFlight ==
    \E h \in Handlers :
        \/ ReceiveInFlight(h)
        \/ SendAck(h)
        \/ LoadFault(h)
        \/ TextTurn(h)
        \/ SendReply(h)
        \/ Sleep(h)
        \/ SendApology(h)
        \/ Return(h)

SpecInFlight == Init /\ [][NextInFlight]_vars

(***************************************************************************)
(* One conversation, new or already holding up to sixteen history entries  *)
(***************************************************************************)

\* text of the n-th earlier turn of the conversation
EarlierText(n) == "hi " \o ToString(n)

\* the history after n handled turns, the n-th at time n: add_to_history
\* applied for the user entry and for the assistant entry of each turn
RECURSIVE EarlierHistory(_)
EarlierHistory(n) ==
    IF n = 0 THEN <<>>
    ELSE add_to_history(add_to_history(EarlierHistory(n - 1),
                                       "user", EarlierText(n), n),
                        "assistant", "Here is your plan.", n)

\* the turns that produced it
EarlierTurns(n) ==
    [i \in 1..n |->
        [text |-> EarlierText(i),
         outcome |-> [kind |-> "choices", content |-> "Here is your plan."]]]

\* number of turns handled before the run starts: their entries fill the
\* window of history[-16:] exactly
EarlierTurnCount == ContextWindow \div 2

\* messages of the run: the three queries, an empty text and the two session
\* markers
LongContents ==
    {<<TextContent(q)>> : q \in Queries}
        \cup {<<TextContent("")>>, <<StartSessionContent>>,
              <<EndSessionContent>>}

\* the run may also start one turn earlier, with a history shorter than the
\* window, or with a new conversation
EarlierTurnCounts == {0, EarlierTurnCount - 1, EarlierTurnCount}

\* the store is empty, or holds the conversation as its last earlier turn
\* saved it
InitLong ==
    /\ \E n \in EarlierTurnCounts :
        /\ storage = IF n = 0 THEN EmptyDict
                      ELSE save_session_data(EmptyDict, SharedConversation[1],
                                             SharedConversation[2],
                                             [history |-> EarlierHistory(n),
                                              state |-> NewSession(1).state],
                                             n)
        /\ clock = n
        /\ turns = IF n = 0 THEN EmptyDict
                    ELSE SetKey(EmptyDict,
                                get_session_key(SharedConversation[1],
                                                SharedConversation[2]),
                                EarlierTurns(n))
    /\ received = 0
    /\ HandlerInit
    /\ HarnessIdle

\* the next message of the conversation is delivered
ReceiveLong(h) ==
    /\ \A g \in Handlers : pc[g] = "idle"
    /\ h = 1
    /\ received < MaxMessages
    /\ \E c \in LongContents :
        msg' = [msg EXCEPT ![h] = [msg_id |-> received + 1, content |-> c]]
    /\ sender' = [sender EXCEPT ![h] = SharedConversation[1]]
    /\ ctx_session' = [ctx_session EXCEPT ![h] = SharedConversation[2]]
    /\ received' = received + 1
    /\ clock' = clock + 1
    /\ Goto(h, "ack")
    /\ UNCHANGED <<storage, session_id, session_data, loaded, request,
                   classified, result, attempt, trace, turns, harnessVars>>

NextLong ==
    \E h \in Handlers :
        \/ ReceiveLong(h)
        \/ SendAck(h)
        \/ LoadFault(h)
        \/ StartSession(h)
        \/ EndSession(h)
        \/ EmptyMessage(h)
        \/ TextTurn(h)
        \/ SendWelcome(h)
        \/ SendClosing(h)
        \/ SendReply(h)
        \/ Sleep(h)
        \/ SendApology(h)
        \/ Return(h)

SpecLong == InitLong /\ [][NextLong]_vars

(***************************************************************************)
(* The classifier applied to a range of queries                            *)
(***************************************************************************)

Fragments ==
    {"assess", "SMART goal", "Workout", "meal prep", "progress", "pre workout",
     "recap", "repeat", "why", "hello", "great", "@agent1qx7"}

ClassifyQueries ==
    {"how's my progress", "summarize what we discussed", ""} \cup
    Fragments \cup
    {a \o j \o b : a \in Fragments, b \in Fragments, j \in {" ", ""}}

ClassifyHistories ==
    {<<>>, <<[role |-> "user", content |-> "hi", timestamp |-> 0]>>}

ClassifyInit ==
    /\ storage = EmptyDict
    /\ clock = 0
    /\ received = 0
    /\ turns = EmptyDict
    /\ HandlerInit
    /\ cq_query \in ClassifyQueries
    /\ cq_history \in ClassifyHistories
    /\ cq_result = <<>>
    /\ kv_log = <<>>

Classify ==
    /\ cq_result = <<>>
    /\ cq_result' = <<classify_query(cq_query, cq_history)>>
    /\ UNCHANGED <<storage, clock, received, handlerVars, turns, cq_query,
                   cq_history, kv_log>>

ClassifyNext == Classify

SpecClassify == ClassifyInit /\ [][ClassifyNext]_vars

(***************************************************************************)
(* The session store functions applied to a range of sessions              *)
(***************************************************************************)

MaxStoreOps == 3    \* store operations in one run

StorePairs == {<<"agent1qaa", "s1">>, <<"agent1qaa", "s2">>}

SampleStates ==
    {NewSession(0).state,
     [NewSession(0).state EXCEPT !.greeted = TRUE, !.current_phase = "meal",
          !.fitness_profile = [age |-> 30], !.goals = <<"lose 5kg">>],
     SetKey([NewSession(0).state EXCEPT !.current_phase = "goals"],
            "updated_at", 0)}

SampleSessions ==
    {[history |-> hist, state |-> st] :
        hist \in {<<>>, <<[role |-> "user", content |-> "hi", timestamp |-> 0],
                          [role |-> "assistant", content |-> PLAN_ERROR,
                           timestamp |-> 0]>>},
        st \in SampleStates}

\* save_session_data(ctx, sender, session_id, data) one second later
KvPut ==
    /\ clock < MaxStoreOps
    /\ clock' = clock + 1
    /\ \E pair \in StorePairs, data \in SampleSessions :
        /\ storage' = save_session_data(storage, pair[1], pair[2], data, clock')
        /\ kv_log' = Append(kv_log, [op |-> "put", sender |-> pair[1],
                                     session_id |-> pair[2], at |-> clock',
                                     data |-> data])
    /\ UNCHANGED <<received, handlerVars, turns, cq_query, cq_history,
                   cq_result>>

\* get_session_data(ctx, sender, session_id) one second later
KvGet ==
    /\ clock < MaxStoreOps
    /\ clock' = clock + 1
    /\ \E pair \in StorePairs :
        kv_log' = Append(kv_log, [op |-> "get", sender |-> pair[1],
                                  session_id |-> pair[2], at |-> clock',
                                  data |-> get_session_data(storage, pair[1],
                                                            pair[2], clock')])
    /\ UNCHANGED <<storage, received, handlerVars, turns, cq_query, cq_history,
                   cq_result>>

StoreNext == KvPut \/ KvGet

SpecStore == Init /\ [][StoreNext]_vars

(***************************************************************************)
(* Properties                                                              *)
(***************************************************************************)

FallbackTexts ==
    {PLAN_NO_CHOICE, PLAN_TIMEOUT, PLAN_ERROR, CONTEXT_NO_CHOICE, CONTEXT_ERROR}

PhaseNames == {"assessment", "goals", "workout", "meal", "progress"}

ModelEvents(tr) == SelectSeq(tr, LAMBDA e : e.ev = "model")

ChatSends(tr) ==
    SelectSeq(tr, LAMBDA e : e.ev = "send" /\ e.payload.type = "ChatMessage")

\* a send or a store access of the trace raised
TransportOrStoreFault(tr) ==
    \E i \in 1..Len(tr) : tr[i].ev \in {"send", "get", "save"} /\ ~tr[i].ok

PhaseOf(store, key) ==
    IF key \in DOMAIN store THEN store[key].state.current_phase ELSE "intake"

HistoryOf(store, key) ==
    IF key \in DOMAIN store THEN store[key].history ELSE <<>>

\* the step in which handler h runs a text turn (it calls the model once)
TurnStep(h) == pc[h] = "run" /\ Len(ModelEvents(trace'[h])) = 1

\* the model call of that step: request path and outcome
ModelCall(h) == ModelEvents(trace'[h])[1].payload

\* what the classifier returns for the message handler h is about to process
Detected(h) ==
    classify_query(extract_text(msg[h]), HistoryOf(storage, Key(h)))

\* handler h has loaded its session and not yet returned
HasLoaded(h) ==
    \E i \in 1..Len(trace[h]) : trace[h][i].ev = "get" /\ trace[h][i].ok

\* handler h has run a text turn (it called the model once)
Turned(h) == HasLoaded(h) /\ Len(ModelEvents(trace[h])) = 1

\* position in the trace of the model call of that turn
ModelAt(h) == CHOOSE i \in 1..Len(trace[h]) : trace[h][i].ev = "model"

\* what the classifier returned in the turn of handler h
DetectedOnLoad(h) == classified[h]

\* the key under which handler h works, once session_id is assigned
KeyUsed(h) == get_session_key(sender[h], session_id[h])

\* C1: for every session key, the persisted history holds exactly two entries
\* per text turn that was handled through to its persist step: the user entry
\* with the turn's text, then the assistant entry, in the order of the turns;
\* when the model call failed or returned no choice the assistant entry is a
\* fixed fallback string.
C1_HistoryTwoPerTurn ==
    /\ DOMAIN turns \subseteq DOMAIN storage
    /\ \A key \in DOMAIN storage :
        LET history == storage[key].history
            handled == TurnsOf(key)
        IN  /\ Len(history) = 2 * Len(handled)
            /\ \A n \in 1..Len(handled) :
                /\ 2 * n <= Len(history)
                /\ history[2 * n - 1].role = "user"
                /\ history[2 * n - 1].content = handled[n].text
                /\ history[2 * n].role = "assistant"
                /\ IF handled[n].outcome.kind = "choices"
                   THEN history[2 * n].content = handled[n].outcome.content
                   ELSE history[2 * n].content \in FallbackTexts

\* two turns persisted under one key, one of them with a failed model call
C1_Witness ==
    \E key \in DOMAIN storage :
        /\ Len(TurnsOf(key)) = 2
        /\ Len(storage[key].history) = 4
        /\ \E n \in 1..2 : TurnsOf(key)[n].outcome.kind # "choices"

\* C2: current_phase, persisted or in the handler's state dict, changes only
\* in a text turn on the planning path in which the classifier detected a
\* phase and the model returned a choice, and then it becomes the detected
\* phase; in such a turn with a detected phase and a choice it is the
\* detected phase afterwards; the persisted value is always intake or one of
\* the five phases.
C2_PhaseChangesOnlyOnPlannedPhase ==
    [][/\ \A key \in DOMAIN storage' :
            /\ storage'[key].state.current_phase \in PhaseNames \cup {"intake"}
            /\ storage'[key].state.current_phase # PhaseOf(storage, key) =>
                \E h \in Handlers :
                    /\ TurnStep(h)
                    /\ key = Key(h)
                    /\ Detected(h).phase # None
                    /\ ModelCall(h) = [path |-> "planning", outcome |-> "choices"]
                    /\ storage'[key].state.current_phase = Detected(h).phase
       /\ \A h \in Handlers : TurnStep(h) =>
            LET after == session_data'[h].state.current_phase
                changes == /\ Detected(h).phase # None
                           /\ ModelCall(h) = [path |-> "planning",
                                              outcome |-> "choices"]
            IN  /\ changes => after = Detected(h).phase
                /\ ~changes => after = PhaseOf(storage, Key(h))
      ]_vars

\* a session whose persisted phase has become workout
C2_Witness ==
    \E key \in DOMAIN storage :
        /\ storage[key].state.current_phase = "workout"
        /\ Len(TurnsOf(key)) = 1
        /\ TurnsOf(key)[1].outcome.kind = "choices"

C4_NoChoiceIsNormal ==
    \A h \in Handlers :
        (/\ Turned(h)
         /\ trace[h][ModelAt(h)].payload =
                [path |-> "planning", outcome |-> "no_choices"]) =>
            LET history == session_data[h].history
                tr == trace[h]
                save == ModelAt(h) + 1
            IN  /\ result[h] = PLAN_NO_CHOICE
                /\ session_data[h].state.current_phase =
                       loaded[h].state.current_phase
                /\ PhaseOf(storage, KeyUsed(h)) = loaded[h].state.current_phase
                /\ Len(history) = Len(loaded[h].history) + 2
                /\ history[Len(history)].role = "assistant"
                /\ history[Len(history)].content = PLAN_NO_CHOICE
                /\ Len(tr) >= save
                /\ tr[save].ev = "save"
                /\ IF Len(tr) = save
                   THEN pc[h] = IF tr[save].ok
                                THEN "send_reply" ELSE "send_apology"
                   ELSE /\ tr[save + 1].ev = "send"
                        /\ tr[save + 1].payload =
                               IF tr[save].ok
                               THEN create_text_chat(PLAN_NO_CHOICE, FALSE)
                               ELSE create_text_chat(APOLOGY_MESSAGE, FALSE)

\* a session with two persisted no-choice turns, one without and one with a
\* detected phase, still in phase intake
C4_Witness ==
    \E key \in DOMAIN storage :
        /\ Len(TurnsOf(key)) = 2
        /\ \A n \in 1..2 : TurnsOf(key)[n].outcome.kind = "no_choices"
        /\ classify_query(TurnsOf(key)[1].text, <<>>).type = "general"
        /\ classify_query(TurnsOf(key)[2].text, <<>>).phase = "workout"
        /\ storage[key].history[2].content = PLAN_NO_CHOICE
        /\ storage[key].history[4].content = PLAN_NO_CHOICE
        /\ storage[key].state.current_phase = "intake"

\* the order of the phases
PhaseOrder == <<"assessment", "goals", "workout", "meal", "progress">>

\* the keyword list of a phase
Keywords(phase) ==
    phase_patterns[CHOOSE i \in 1..Len(phase_patterns) :
                       phase_patterns[i].phase = phase].patterns

\* positions in PhaseOrder of the phases whose keyword list matches the
\* cleaned query
MatchedPhases(query) ==
    {i \in 1..Len(PhaseOrder) :
        AnyPatternIn(Keywords(PhaseOrder[i]), CleanQuery(query))}

\* C5: when the cleaned query matches at least one phase keyword list,
\* classify_query returns the matched phase that comes first in the order
\* assessment, goals, workout, meal, progress, with type phase_<that phase>
\* (so the result is a function of the query).
C5_EarliestPhaseWins ==
    cq_result # <<>> =>
        LET matched == MatchedPhases(cq_query)
            first == CHOOSE i \in matched : \A j \in matched : i <= j
        IN  matched # {} =>
                /\ cq_result[1].phase = PhaseOrder[first]
                /\ cq_result[1].type = "phase_" \o PhaseOrder[first]
                /\ cq_result[1].needs_planning

\* a query with workout and meal keywords (and no earlier phase) classified
\* as workout
C5_Witness ==
    /\ cq_result # <<>>
    /\ MatchedPhases(cq_query) = {3, 4}
    /\ cq_result[1].phase = "workout"
    /\ cq_result[1].type = "phase_workout"

\* C6: classify_query returns context_analysis, with needs_planning false and
\* no phase, exactly when the cleaned query matches no phase keyword list and
\* matches the context list; when it matches neither it returns general with
\* no phase and needs_planning true; is_followup is always (history is
\* non-empty).  The two examples of the specification come out as stated.
C6_ContextAndGeneral ==
    cq_result # <<>> =>
        LET r == cq_result[1]
            phaseMatch == MatchedPhases(cq_query) # {}
            contextMatch == AnyPatternIn(context_patterns, CleanQuery(cq_query))
        IN  /\ (r.type = "context_analysis") <=> (~phaseMatch /\ contextMatch)
            /\ r.type = "context_analysis" =>
                    /\ r.needs_planning = FALSE
                    /\ r.phase = None
            /\ (~phaseMatch /\ ~contextMatch) =>
                    /\ r.type = "general"
                    /\ r.phase = None
                    /\ r.needs_planning = TRUE
            /\ r.is_followup = (Len(cq_history) > 0)
            /\ cq_query = "summarize what we discussed" =>
                    r.type = "context_analysis" /\ r.needs_planning = FALSE
            /\ cq_query = "how's my progress" =>
                    r.type = "phase_progress" /\ r.phase = "progress"

\* a context-analysis classification on a non-empty history
C6_Witness ==
    /\ cq_result # <<>>
    /\ cq_query = "summarize what we discussed"
    /\ cq_history # <<>>
    /\ cq_result[1] = [type |-> "context_analysis", phase |-> None,
                       is_followup |-> TRUE, needs_planning |-> FALSE]

\* the puts to the pair of log entry i that come before it
PutsBefore(i) ==
    {j \in 1..(i - 1) :
        /\ kv_log[j].op = "put"
        /\ kv_log[j].sender = kv_log[i].sender
        /\ kv_log[j].session_id = kv_log[i].session_id}

\* C7: a get returns what the last put to the same (sender, session id)
\* wrote: the same history and state fields, with updated_at set to the time
\* of that put, whatever was stored before; a get on a pair never put returns
\* the default session, and no record exists for such a pair.
C7_StoreRoundTrip ==
    /\ \A i \in 1..Len(kv_log) : kv_log[i].op = "get" =>
        LET got == kv_log[i].data
        IN  IF PutsBefore(i) = {}
            THEN /\ got.history = <<>>
                 /\ got.state = [greeted |-> FALSE, created_at |-> kv_log[i].at,
                                 current_phase |-> "intake",
                                 fitness_profile |-> <<>>, goals |-> <<>>,
                                 workout_plan |-> <<>>, meal_plan |-> <<>>,
                                 progress_log |-> <<>>]
            ELSE LET last == CHOOSE j \in PutsBefore(i) :
                                 \A k \in PutsBefore(i) : k <= j
                     put == kv_log[last]
                 IN  /\ got.history = put.data.history
                     /\ DOMAIN got.state = DOMAIN put.data.state \cup {"updated_at"}
                     /\ got.state.updated_at = put.at
                     /\ \A f \in DOMAIN put.data.state \ {"updated_at"} :
                            got.state[f] = put.data.state[f]
    /\ \A pair \in StorePairs :
        (\A j \in 1..Len(kv_log) :
            ~(/\ kv_log[j].op = "put"
              /\ kv_log[j].sender = pair[1]
              /\ kv_log[j].session_id = pair[2]))
        => get_session_key(pair[1], pair[2]) \notin DOMAIN storage

\* two different sessions put under one pair, then a get of that pair
C7_Witness ==
    /\ Len(kv_log) = 3
    /\ kv_log[1].op = "put" /\ kv_log[2].op = "put" /\ kv_log[3].op = "get"
    /\ PutsBefore(3) = {1, 2}
    /\ kv_log[1].data.history # kv_log[2].data.history
    /\ kv_log[2].data.state.greeted
    /\ kv_log[3].data.state.updated_at = 2

HasItem(m, type) == \E i \in 1..Len(m.content) : m.content[i].type = type

\* the first text item of the message, if it has one, is empty
NoTextGiven(m) ==
    \A i \in 1..Len(m.content) :
        (/\ m.content[i].type = "text"
         /\ \A j \in 1..(i - 1) : m.content[j].type # "text")
        => m.content[i].text = ""

\* the first session marker among the items of the message is of this type
FirstMarkerIs(m, type) ==
    \E i \in 1..Len(m.content) :
        /\ m.content[i].type = type
        /\ \A j \in 1..(i - 1) :
               m.content[j].type \notin {"start-session", "end-session"}

\* the message of handler h has no non-empty first text and its first
\* session marker is of the given type
MarkerMessage(h, type) ==
    NoTextGiven(msg[h]) /\ FirstMarkerIs(msg[h], type)

\* C8 as stated: every message containing a start-of-session marker, handled
\* without a transport or store fault, gives exactly one chat message, the
\* welcome, no model call, and a persisted session with greeted = true.
C8_AnyStartMarkerWelcomes ==
    \A h \in Handlers :
        (/\ pc[h] = "done"
         /\ HasItem(msg[h], "start-session")
         /\ ~TransportOrStoreFault(trace[h])) =>
            /\ ChatSends(trace[h]) =
                   <<Ev("send", TRUE, create_text_chat(WELCOME_MESSAGE, FALSE))>>
            /\ ModelEvents(trace[h]) = <<>>
            /\ KeyUsed(h) \in DOMAIN storage
            /\ storage[KeyUsed(h)].state.greeted

\* C8, amended: a message with no non-empty first text whose first session
\* marker is a start-of-session marker, handled without a transport or store
\* fault, leaves the persisted history as it was, persists the session with
\* greeted = true, makes no model call and emits exactly one chat message,
\* the welcome; this holds for every such message, a repeated one included.
C8_StartMarkerWelcomes ==
    \A h \in Handlers :
        (/\ pc[h] \notin {"idle", "ack", "run"}
         /\ MarkerMessage(h, "start-session")) =>
            /\ ModelEvents(trace[h]) = <<>>
            /\ HasLoaded(h) =>
                   HistoryOf(storage, KeyUsed(h)) = loaded[h].history
            /\ pc[h] = "send_welcome" =>
                /\ KeyUsed(h) \in DOMAIN storage
                /\ storage[KeyUsed(h)].state.greeted
            /\ (pc[h] = "done" /\ ~TransportOrStoreFault(trace[h])) =>
                /\ ChatSends(trace[h]) =
                       <<Ev("send", TRUE, create_text_chat(WELCOME_MESSAGE, FALSE))>>
                /\ KeyUsed(h) \in DOMAIN storage
                /\ storage[KeyUsed(h)].state.greeted

\* the second message of a run is a start marker on a session the first
\* message had created, and has been answered by the welcome
C8_Witness ==
    \E h \in Handlers :
        /\ pc[h] = "done"
        /\ msg[h].msg_id = 2
        /\ MarkerMessage(h, "start-session")
        /\ ~TransportOrStoreFault(trace[h])
        /\ Len(ChatSends(trace[h])) = 1
        /\ storage[KeyUsed(h)].state.greeted
        /\ storage[KeyUsed(h)].state.created_at = 1
        /\ storage[KeyUsed(h)].state.updated_at = 2

\* C9 as stated: every message containing an end-of-session marker, handled
\* without a transport or store fault, gives exactly one chat message, the
\* closing one with the end-session item, and no model call.
C9_AnyEndMarkerCloses ==
    \A h \in Handlers :
        (/\ pc[h] = "done"
         /\ HasItem(msg[h], "end-session")
         /\ ~TransportOrStoreFault(trace[h])) =>
            /\ ChatSends(trace[h]) =
                   <<Ev("send", TRUE, create_text_chat(CLOSING_MESSAGE, TRUE))>>
            /\ ModelEvents(trace[h]) = <<>>

\* C9, amended: a message with no non-empty first text whose first session
\* marker is an end-of-session marker, handled without a transport or store
\* fault, persists the session as loaded (history and state fields unchanged,
\* updated_at set), makes no model call and emits exactly one chat message:
\* the closing text followed by an end-session item.
C9_EndMarkerCloses ==
    \A h \in Handlers :
        (/\ pc[h] \notin {"idle", "ack", "run"}
         /\ MarkerMessage(h, "end-session")) =>
            /\ ModelEvents(trace[h]) = <<>>
            /\ HasLoaded(h) =>
                   HistoryOf(storage, KeyUsed(h)) = loaded[h].history
            /\ pc[h] = "send_closing" =>
                LET before == loaded[h].state
                    after == storage[KeyUsed(h)].state
                IN  /\ DOMAIN after = DOMAIN before \cup {"updated_at"}
                    /\ after.updated_at = clock
                    /\ \A f \in DOMAIN before \ {"updated_at"} :
                           after[f] = before[f]
            /\ (pc[h] = "done" /\ ~TransportOrStoreFault(trace[h])) =>
                /\ Len(ChatSends(trace[h])) = 1
                /\ ChatSends(trace[h])[1].ok
                /\ ChatSends(trace[h])[1].payload.content =
                       <<TextContent(CLOSING_MESSAGE), EndSessionContent>>
                /\ \E i \in 1..Len(trace[h]) :
                       trace[h][i] = Ev("save", TRUE, [key |-> KeyUsed(h)])

\* an end marker closed a session that holds a turn and a detected phase
C9_Witness ==
    \E h \in Handlers :
        /\ pc[h] = "done"
        /\ MarkerMessage(h, "end-session")
        /\ ~TransportOrStoreFault(trace[h])
        /\ Len(ChatSends(trace[h])) = 1
        /\ Len(storage[KeyUsed(h)].history) = 2
        /\ storage[KeyUsed(h)].state.current_phase = "workout"
        /\ storage[KeyUsed(h)].state.updated_at = 2

\* C10: for every message the first call the handler makes is the send of an
\* acknowledgement carrying the message's identifier; a session read, a
\* session write, a model call or the send of a welcome, closing or reply
\* message occurs only after that send has succeeded.
C10_AckFirst ==
    \A h \in Handlers :
        /\ pc[h] \in {"idle", "ack"} => trace[h] = <<>>
        /\ pc[h] \notin {"idle", "ack"} =>
            /\ Len(trace[h]) >= 1
            /\ trace[h][1].ev = "send"
            /\ trace[h][1].payload = ChatAcknowledgement(msg[h].msg_id)
            /\ \A i \in 2..Len(trace[h]) :
                /\ ~(/\ trace[h][i].ev = "send"
                     /\ trace[h][i].payload.type = "ChatAcknowledgement")
                /\ (\/ trace[h][i].ev \in {"get", "save", "model"}
                    \/ /\ trace[h][i].ev = "send"
                       /\ trace[h][i].payload #
                              create_text_chat(APOLOGY_MESSAGE, FALSE))
                   => trace[h][1].ok

\* the second message was acknowledged, then read, planned, saved and
\* answered
C10_Witness ==
    \E h \in Handlers :
        /\ pc[h] = "done"
        /\ msg[h].msg_id = 2
        /\ Len(trace[h]) = 5
        /\ trace[h][1] = Ev("send", TRUE, ChatAcknowledgement(2))
        /\ trace[h][2].ev = "get"
        /\ trace[h][3].ev = "model"
        /\ trace[h][4].ev = "save"
        /\ trace[h][5] = Ev("send", TRUE, create_text_chat(result[h], FALSE))

\* position in the trace of the save of the turn of handler h
SaveAt(h) == ModelAt(h) + 1

\* the event is an attempt to send the reply of handler h
IsReplySend(h, e) ==
    e.ev = "send" /\ e.payload = create_text_chat(result[h], FALSE)

\* the event is an attempt to send the technical-issue apology
IsApologySend(e) ==
    e.ev = "send" /\ e.payload = create_text_chat(APOLOGY_MESSAGE, FALSE)

\* C11: after the save of a text turn the handler does nothing but try to
\* send the reply, at most 3 times, stopping at the first success; a failed
\* first attempt is followed by a wait of 2 seconds and a failed second one
\* by a wait of 4 seconds, a failed third one by no wait; no model call, no
\* session read and no save occurs during the retries; the apology of a
\* failed turn comes only after three failed attempts.
C11_ReplyRetry ==
    \A h \in Handlers :
        (Turned(h) /\ trace[h][SaveAt(h)].ok) =>
            LET tr == trace[h]
                base == SaveAt(h)
            IN  /\ Len(tr) <= base + 2 * max_retries
                /\ \A i \in (base + 1)..Len(tr) :
                    LET k == i - base
                    IN  /\ tr[i].ev \in {"send", "sleep"}
                        /\ (k % 2 = 1 /\ k < 2 * max_retries) =>
                                IsReplySend(h, tr[i])
                        /\ (k % 2 = 0 /\ k < 2 * max_retries) =>
                                /\ tr[i].ev = "sleep"
                                /\ tr[i].payload.seconds = 2 * (k \div 2)
                                /\ ~tr[i - 1].ok
                        /\ k = 2 * max_retries =>
                                /\ IsApologySend(tr[i])
                                /\ \A a \in 1..max_retries :
                                       /\ IsReplySend(h, tr[base + 2 * a - 1])
                                       /\ ~tr[base + 2 * a - 1].ok
                        /\ (IsReplySend(h, tr[i]) /\ tr[i].ok) =>
                                i = Len(tr) /\ pc[h] = "done"
                        /\ (IsReplySend(h, tr[i]) /\ ~tr[i].ok /\ i = Len(tr)) =>
                                pc[h] = IF k < 2 * max_retries - 1
                                        THEN "sleep" ELSE "send_apology"
                /\ Len(SelectSeq(tr, LAMBDA e : IsReplySend(h, e))) <= max_retries
                /\ Len(tr) = base => pc[h] = "send_reply"

\* three failed attempts with waits of 2 and 4 seconds between them, then the
\* apology
C11_Witness ==
    \E h \in Handlers :
        /\ pc[h] = "done"
        /\ Turned(h)
        /\ Len(trace[h]) = SaveAt(h) + 6
        /\ LET tr == trace[h]
               base == SaveAt(h)
           IN  /\ tr[base].ok
               /\ IsReplySend(h, tr[base + 1]) /\ ~tr[base + 1].ok
               /\ tr[base + 2] = Ev("sleep", TRUE, [seconds |-> 2])
               /\ IsReplySend(h, tr[base + 3]) /\ ~tr[base + 3].ok
               /\ tr[base + 4] = Ev("sleep", TRUE, [seconds |-> 4])
               /\ IsReplySend(h, tr[base + 5]) /\ ~tr[base + 5].ok
               /\ IsApologySend(tr[base + 6])

\* a step of handler h between two of its suspension points
HandlerStep(h) ==
    \/ SendAck(h) \/ LoadFault(h) \/ StartSession(h) \/ EndSession(h)
    \/ EmptyMessage(h) \/ TextTurn(h) \/ SendWelcome(h) \/ SendClosing(h)
    \/ SendReply(h) \/ Sleep(h) \/ SendApology(h)

\* the failed attempts to send the reply in a trace
FailedReplySends(h, tr) ==
    SelectSeq(tr, LAMBDA e : IsReplySend(h, e) /\ ~e.ok)

\* an exception has reached the outer except clause of handler h: a failed
\* acknowledgement, welcome or closing send, a failed store access, or the
\* third failed reply send
FaultRaised(h) ==
    LET tr == trace[h]
    IN  \/ \E i \in 1..Len(tr) :
            /\ ~tr[i].ok
            /\ \/ tr[i].ev \in {"get", "save"}
               \/ /\ tr[i].ev = "send"
                  /\ \/ tr[i].payload.type = "ChatAcknowledgement"
                     \/ tr[i].payload = create_text_chat(WELCOME_MESSAGE, FALSE)
                     \/ tr[i].payload = create_text_chat(CLOSING_MESSAGE, TRUE)
        \/ Len(FailedReplySends(h, tr)) = max_retries

ApologySends(tr) == SelectSeq(tr, LAMBDA e : IsApologySend(e))

\* C12: once a fault has reached the outer except clause (failed
\* acknowledgement, welcome or closing send, store fault, or three failed
\* reply sends) the handler's next and last call is one send of the
\* technical-issue apology, whether that send succeeds or not; without such a
\* fault no apology is sent; a handler that has not returned always has a next
\* step, and it returns after a bounded number of calls.
C12_FaultGivesOneApology ==
    \A h \in Handlers :
        LET tr == trace[h]
        IN  /\ Len(ApologySends(tr)) <= 1
            /\ Len(ApologySends(tr)) = 1 =>
                    /\ FaultRaised(h)
                    /\ IsApologySend(tr[Len(tr)])
                    /\ pc[h] = "done"
            /\ pc[h] = "send_apology" <=>
                    (FaultRaised(h) /\ ApologySends(tr) = <<>>)
            /\ (pc[h] = "done" /\ FaultRaised(h)) =>
                    /\ Len(ApologySends(tr)) = 1
                    /\ \A i \in 1..(Len(tr) - 1) :
                           ~tr[i].ok => ~IsApologySend(tr[i])
            /\ pc[h] \notin {"idle", "done"} => ENABLED HandlerStep(h)
            /\ pc[h] = "done" => ENABLED Return(h)
            /\ Len(tr) <= 4 + 2 * max_retries

\* the welcome could not be sent, and neither could the apology
C12_Witness ==
    \E h \in Handlers :
        /\ pc[h] = "done"
        /\ Len(trace[h]) = 5
        /\ trace[h][4] = Ev("send", FALSE, create_text_chat(WELCOME_MESSAGE, FALSE))
        /\ trace[h][5] = Ev("send", FALSE, create_text_chat(APOLOGY_MESSAGE, FALSE))

\* the message of handler h has no non-empty first text and no session marker
EmptyInput(h) ==
    /\ NoTextGiven(msg[h])
    /\ ~HasItem(msg[h], "start-session")
    /\ ~HasItem(msg[h], "end-session")

\* C13: a message with no non-empty text (its first text item, if any, is
\* empty) and no session marker is a no-op: after the acknowledgement the
\* handler reads the session and returns; it calls no model, saves nothing
\* and sends no welcome, closing or reply message; the record of the session
\* is what it was (absent if it was absent, equal to the loaded record
\* otherwise).  The only other message it can send is the apology after a
\* failed acknowledgement send or a failed session read.
C13_EmptyMessageNoOp ==
    \A h \in Handlers :
        (pc[h] \notin {"idle", "ack", "run"} /\ EmptyInput(h)) =>
            LET tr == trace[h]
            IN  /\ ModelEvents(tr) = <<>>
                /\ \A i \in 1..Len(tr) :
                    /\ tr[i].ev \in {"send", "get"}
                    /\ (tr[i].ev = "send" /\ tr[i].payload.type = "ChatMessage")
                        => (IsApologySend(tr[i]) /\ FaultRaised(h))
                /\ HasLoaded(h) =>
                    /\ pc[h] = "done"
                    /\ tr = <<Ev("send", TRUE, ChatAcknowledgement(msg[h].msg_id)),
                              Ev("get", TRUE, [key |-> KeyUsed(h)])>>
                    /\ IF "updated_at" \in DOMAIN loaded[h].state
                       THEN /\ KeyUsed(h) \in DOMAIN storage
                            /\ storage[KeyUsed(h)] = loaded[h]
                       ELSE KeyUsed(h) \notin DOMAIN storage

\* an empty message on a session that exists, and one on a session that does
\* not: either way the handler is done after the acknowledgement and the read
C13_Witness ==
    \E h \in Handlers :
        /\ pc[h] = "done"
        /\ EmptyInput(h)
        /\ msg[h].content = <<TextContent("")>>
        /\ Len(trace[h]) = 2
        /\ KeyUsed(h) \in DOMAIN storage
        /\ Len(storage[KeyUsed(h)].history) = 2
        /\ storage[KeyUsed(h)].state.updated_at = 1
        /\ clock = 2

\* the fixed string the planner returns for a model call that gave no text
FallbackFor(path, kind) ==
    IF path = "context_analysis"
    THEN IF kind = "no_choices" THEN CONTEXT_NO_CHOICE ELSE CONTEXT_ERROR
    ELSE CASE kind = "no_choices" -> PLAN_NO_CHOICE
           [] kind = "TimeoutError" -> PLAN_TIMEOUT
           [] OTHER -> PLAN_ERROR

\* C14: whatever the model call does (text, no choice, timeout, any other
\* exception) on either path, the planner returns a text: the model's text
\* or the fixed fallback string of that path and fault; the turn then goes on
\* as usual: the text is the assistant entry appended after the user entry,
\* the save is attempted, after a successful save the store holds both
\* entries and the text is what the reply sends carry; the apology is sent
\* only after a store or send fault, never for the model fault itself.
C14_ModelFaultIsRecovered ==
    \A h \in Handlers : Turned(h) =>
        LET tr == trace[h]
            call == tr[ModelAt(h)].payload
            history == session_data[h].history
            n == Len(history)
        IN  /\ IF call.outcome = "choices"
               THEN result[h] \in ModelTexts
               ELSE /\ result[h] = FallbackFor(call.path, call.outcome)
                    /\ result[h] \in FallbackTexts
            /\ n = Len(loaded[h].history) + 2
            /\ history[n - 1].role = "user"
            /\ history[n - 1].content = extract_text(msg[h])
            /\ history[n].role = "assistant"
            /\ history[n].content = result[h]
            /\ Len(tr) >= SaveAt(h)
            /\ tr[SaveAt(h)].ev = "save"
            /\ tr[SaveAt(h)].ok =>
                /\ KeyUsed(h) \in DOMAIN storage
                /\ storage[KeyUsed(h)].history = history
                /\ IF Len(tr) = SaveAt(h)
                   THEN pc[h] = "send_reply"
                   ELSE IsReplySend(h, tr[SaveAt(h) + 1])
            /\ ApologySends(tr) # <<>> => FaultRaised(h)
            /\ (pc[h] = "done" /\ ~FaultRaised(h)) =>
                /\ IsReplySend(h, tr[Len(tr)])
                /\ tr[Len(tr)].ok

\* a context-analysis turn whose model call raised: the fallback was saved
\* and sent as the reply
C14_Witness ==
    \E h \in Handlers :
        /\ pc[h] = "done"
        /\ Turned(h)
        /\ trace[h][ModelAt(h)].payload =
               [path |-> "context_analysis", outcome |-> "Exception"]
        /\ Len(trace[h]) = 5
        /\ trace[h][5] = Ev("send", TRUE, create_text_chat(CONTEXT_ERROR, FALSE))
        /\ storage[KeyUsed(h)].history[2].content = CONTEXT_ERROR

\* C15: the calls of a text turn come in a fixed order: acknowledgement,
\* session read, one model call, save, and only then the reply sends; the
\* session that is saved ends with the user entry and the assistant entry of
\* the turn, so at the first reply-send attempt the store holds both; from
\* the save on, through every failed attempt and after the last one, the
\* persisted session stays exactly what was saved.
C15_PersistBeforeReply ==
    \A h \in Handlers : Turned(h) =>
        LET tr == trace[h]
            m == ModelAt(h)
        IN  /\ m = 3
            /\ tr[1].ev = "send" /\ tr[1].payload.type = "ChatAcknowledgement"
            /\ tr[2].ev = "get"
            /\ Len(tr) >= 4 /\ tr[4].ev = "save"
            /\ \A i \in 1..Len(tr) :
                /\ tr[i].ev = "model" => i = 3
                /\ tr[i].ev = "save" => i = 4
                /\ tr[i].ev = "get" => i = 2
                /\ IsReplySend(h, tr[i]) => (i > 4 /\ tr[4].ok)
            /\ tr[4].ok =>
                LET saved == storage[KeyUsed(h)]
                    n == Len(saved.history)
                IN  /\ saved = session_data[h]
                    /\ n = Len(loaded[h].history) + 2
                    /\ SubSeq(saved.history, 1, n - 2) = loaded[h].history
                    /\ saved.history[n - 1].role = "user"
                    /\ saved.history[n - 1].content = extract_text(msg[h])
                    /\ saved.history[n].role = "assistant"
                    /\ saved.history[n].content = result[h]
            /\ ~tr[4].ok =>
                HistoryOf(storage, KeyUsed(h)) = loaded[h].history

\* all three reply sends of the second turn of a session failed and its four
\* entries are in the store
C15_Witness ==
    \E h \in Handlers :
        /\ pc[h] = "send_apology"
        /\ Turned(h)
        /\ Len(FailedReplySends(h, trace[h])) = 3
        /\ Len(storage[KeyUsed(h)].history) = 4
        /\ storage[KeyUsed(h)].history[3].content = extract_text(msg[h])
        /\ storage[KeyUsed(h)].history[4].content = result[h]

\* the turns of a sequence that set current_phase: a phase was detected and
\* the model returned a choice
PhaseSetters(handled) ==
    {n \in 1..Len(handled) :
        /\ handled[n].outcome.kind = "choices"
        /\ classify_query(handled[n].text, <<>>).phase # None}

\* current_phase after the turns of a sequence, one after the other
ReplayPhase(handled) ==
    IF PhaseSetters(handled) = {}
    THEN "intake"
    ELSE LET last == CHOOSE n \in PhaseSetters(handled) :
                         \A k \in PhaseSetters(handled) : k <= n
         IN  classify_query(handled[last].text, <<>>).phase

\* handler h has persisted its text turn
Persisted(h) == Turned(h) /\ trace[h][SaveAt(h)].ok

\* C16: with two text messages of one (sender, session id) in flight at
\* once, in every interleaving of the two handlers the persisted history
\* holds the user and assistant entries of every turn that was persisted, in
\* the order in which the turns persisted (four entries once both have), and
\* current_phase is what handling the turns one after the other in that
\* order gives: no turn's update is lost to state read earlier by the other.
C16_NoLostUpdate ==
    /\ \A key \in DOMAIN storage :
        LET history == storage[key].history
            handled == TurnsOf(key)
        IN  /\ Len(history) = 2 * Len(handled)
            /\ \A n \in 1..Len(handled) :
                /\ history[2 * n - 1].role = "user"
                /\ history[2 * n - 1].content = handled[n].text
                /\ history[2 * n].role = "assistant"
            /\ storage[key].state.current_phase = ReplayPhase(handled)
    /\ \A h \in Handlers : Persisted(h) =>
        LET history == storage[KeyUsed(h)].history
        IN  \E n \in 1..(Len(history) \div 2) :
                /\ history[2 * n - 1].content = extract_text(msg[h])
                /\ history[2 * n].content = result[h]
    /\ (\A h \in Handlers : Persisted(h)) =>
        \A h \in Handlers : Len(storage[KeyUsed(h)].history) = 2 * Cardinality(Handlers)

\* both handlers are waiting on their reply sends; the second message's turn
\* persisted first, the first message's turn last, and the phase is the one
\* the first message's turn set
C16_Witness ==
    /\ pc[1] = "send_reply" /\ pc[2] = "send_reply"
    /\ msg[1].msg_id = 1 /\ msg[2].msg_id = 2
    /\ KeyUsed(1) = KeyUsed(2)
    /\ extract_text(msg[1]) = "Eat more reps"
    /\ extract_text(msg[2]) = "set a goal"
    /\ LET history == storage[KeyUsed(1)].history
       IN  /\ Len(history) = 4
           /\ history[1].content = "set a goal"
           /\ history[3].content = "Eat more reps"
    /\ result[1] \in ModelTexts /\ result[2] \in ModelTexts
    /\ storage[KeyUsed(1)].state.current_phase = "workout"

\* the fields of the session state the planner could touch
PlannerStateFields ==
    {"current_phase", "greeted", "fitness_profile", "goals", "workout_plan",
     "meal_plan", "progress_log"}

\* C17: in a turn classified as context_analysis the model is called on the
\* context-analysis path, never on the planning path, and whatever the call
\* gives (text, no choice, exception) current_phase, greeted,
\* fitness_profile, goals, workout_plan, meal_plan and progress_log are after
\* the planner returned what they were when the session was loaded, in the
\* handler's state and in the record it saves.
C17_ContextTurnKeepsState ==
    \A h \in Handlers :
        (Turned(h) /\ DetectedOnLoad(h).type = "context_analysis") =>
            LET call == trace[h][ModelAt(h)].payload
            IN  /\ call.path = "context_analysis"
                /\ result[h] \in ModelTexts \cup {CONTEXT_NO_CHOICE, CONTEXT_ERROR}
                /\ \A f \in PlannerStateFields :
                    /\ f \in DOMAIN loaded[h].state
                    /\ session_data[h].state[f] = loaded[h].state[f]
                    /\ Persisted(h) =>
                           storage[KeyUsed(h)].state[f] = loaded[h].state[f]

\* a context question asked in a session whose phase is workout, answered by
\* a failed model call: the phase is still workout
C17_Witness ==
    \E h \in Handlers :
        /\ pc[h] = "send_reply"
        /\ Turned(h)
        /\ DetectedOnLoad(h).type = "context_analysis"
        /\ trace[h][ModelAt(h)].payload.outcome = "Exception"
        /\ loaded[h].state.current_phase = "workout"
        /\ storage[KeyUsed(h)].state.current_phase = "workout"
        /\ Len(storage[KeyUsed(h)].history) = 4

\* history a is an initial part of history b
IsPrefix(a, b) == Len(a) <= Len(b) /\ SubSeq(b, 1, Len(a)) = a

\* C18: in every step (start, end, empty or text message, with or without a
\* fault) every record of the store stays, and its history after the step
\* has its history before the step as a prefix: it is unchanged or longer by
\* the two entries of a text turn; this holds for histories longer than the
\* 16-entry window of the model request too, so nothing persisted is dropped.
C18_HistoryAppendOnly ==
    [][\A key \in DOMAIN storage :
        /\ key \in DOMAIN storage'
        /\ IsPrefix(storage[key].history, storage'[key].history)
        /\ Len(storage'[key].history) - Len(storage[key].history) \in {0, 2}
      ]_vars

\* a turn on a history of eighteen entries was saved: the store holds all
\* twenty, the first sixteen being those the run started with
C18_Witness ==
    \E h \in Handlers :
        /\ Persisted(h)
        /\ Len(loaded[h].history) = ContextWindow + 2
        /\ Len(storage[KeyUsed(h)].history) = ContextWindow + 4
        /\ SubSeq(storage[KeyUsed(h)].history, 1, ContextWindow)
               = EarlierHistory(EarlierTurnCount)
        /\ storage[KeyUsed(h)].history[1].content = EarlierText(1)

Min(a, b) == IF a <= b THEN a ELSE b

\* C19: on the planning path the request of the model call is one system
\* message (the planning system prompt), then the last min(16, |h|) entries
\* of h, role and content (cut at 1500 characters), in their order in h,
\* then one user message built
\* from the current text; h is the history as loaded, before the user entry
\* of the turn was appended, so that entry is not among the history
\* messages of the request.
C19_PlanningRequestShape ==
    \A h \in Handlers :
        (Turned(h) /\ trace[h][ModelAt(h)].payload.path = "planning") =>
            LET req == request[h]
                before == loaded[h].history
                k == Min(ContextWindow, Len(before))
                text == extract_text(msg[h])
            IN  /\ Len(req) = k + 2
                /\ req[1] = ChatTurn("system", SYSTEM_PROMPT)
                /\ \A j \in 1..k :
                    /\ req[1 + j].role = before[Len(before) - k + j].role
                    /\ req[1 + j].content =
                           Prefix(before[Len(before) - k + j].content,
                                  MaxContentChars)
                /\ req[k + 2].role = "user"
                /\ Contains(clean_query(text), req[k + 2].content)
                /\ \A j \in 1..Len(req) :
                    /\ req[j].role = "system" <=> j = 1
                    /\ (j \in 2..(k + 1) /\ req[j].content = text) =>
                           \E i \in 1..Len(before) : before[i].content = text
                /\ session_data[h].history[Len(before) + 1].content = text

\* a planning turn on a history of eighteen entries: the request has the
\* system message, entries 3 to 18 and the synthesized message
C19_Witness ==
    \E h \in Handlers :
        /\ Turned(h)
        /\ trace[h][ModelAt(h)].payload.path = "planning"
        /\ Len(loaded[h].history) = ContextWindow + 2
        /\ Len(request[h]) = ContextWindow + 2
        /\ request[h][2] = ChatTurn("user", EarlierText(2))
        /\ request[h][ContextWindow + 1].content = loaded[h].history[18].content
        /\ extract_text(msg[h]) = "Eat more reps"
        /\ request[h][ContextWindow + 2].content =
               build_phase_query("Eat more reps", "workout", loaded[h].state)

\* the (sender, session id) pair a message of conversation conv is handled
\* under when it is received at time t
PairOf(conv, t) ==
    <<conv[1], IF conv[2] # None THEN conv[2] ELSE conv[1] \o "_" \o ToString(t)>>

\* the pairs of all messages received so far
PairsSoFar == {PairOf(conv, t) : conv \in Conversations, t \in 1..clock}

\* distinct pairs have distinct keys
KeysDistinct ==
    \A p, q \in PairsSoFar :
        get_session_key(p[1], p[2]) = get_session_key(q[1], q[2]) => p = q

\* every store access of a handler is made under the key of its own pair
OwnKeyOnly ==
    \A h \in Handlers : \A i \in 1..Len(trace[h]) :
        trace[h][i].ev \in {"get", "save"} =>
            /\ trace[h][i].payload.key = get_session_key(sender[h], session_id[h])
            /\ <<sender[h], session_id[h]>> \in PairsSoFar

\* a step changes no record but the one of the pair whose message is being
\* handled
OtherRecordsKept ==
    \/ storage' = storage
    \/ \E h \in Handlers :
        /\ pc[h] = "run"
        /\ DOMAIN storage' = DOMAIN storage \cup {Key(h)}
        /\ \A key \in DOMAIN storage :
               key # Key(h) => storage'[key] = storage[key]

====
